---- MODULE Spec2Model ----
(***************************************************************************)
(* Model of the PN532 protocol driver (src/src/pn532/mod.rs, spi.rs):      *)
(* frame construction (write_frame), frame parsing (read_frame) and the    *)
(* command dispatcher (call_function) of trait PN532.                      *)
(*                                                                         *)
(* Bytes are u8 values 0..255.  Rust slices are 0-based, TLA+ sequences    *)
(* are 1-based: At and Slice translate.  A panic (failed assert!, index    *)
(* or slice out of range, copy_from_slice length mismatch, arithmetic      *)
(* overflow in a build with overflow checks) is an outcome of its own.     *)
(* overflow_checks is the build profile: TRUE for a build with overflow    *)
(* checks (cargo's dev and test profiles), FALSE for one where u8          *)
(* arithmetic wraps (release).                                             *)
(***************************************************************************)
EXTENDS Integers, Sequences, FiniteSets, TLC

VARIABLES overflow_checks, op, arg, pc, result, events, local

vars == <<overflow_checks, op, arg, pc, result, events, local>>

\* local: the local variables of a method that runs in several steps (the
\* loop of wait_ready); the methods that run in one step leave it alone
NoLocals == [write_buf |-> <<>>, read_buf |-> <<>>, elapsed |-> 0]

(* ------------------------------ bounds --------------------------------- *)
\* longest payload handed to write_frame
MaxPayloadLen == 7
\* largest len handed to read_frame (the buffer read has len + 7 bytes)
MaxReadLen == 1

(* ----------------------------- constants ------------------------------- *)
PREAMBLE == 0
STARTCODE1 == 0
STARTCODE2 == 255
POSTAMBLE == 0
HOSTTOPN532 == 212
PN532TOHOST == 213
COMMAND_GETFIRMWAREVERSION == 2
COMMAND_READGPIO == 12
COMMAND_WRITEGPIO == 14
COMMAND_SAMCONFIGURATION == 20
COMMAND_INLISTPASSIVETARGET == 74
COMMAND_INDATAEXCHANGE == 64
COMMAND_TGINITASTARGET == 140
MIFARE_ISO14443A == 0
MIFARE_CMD_READ == 48
MIFARE_CMD_WRITE == 160
MIFARE_ULTRALIGHT_CMD_WRITE == 162
GPIO_VALIDATIONBIT == 128
ACK == <<0, 0, 255, 0, 255, 0>>

(* ------------------------------ outcomes ------------------------------- *)
\* Result<_>::Ok(d)
Ok(d) == [kind |-> "Ok", data |-> d, msg |-> ""]
\* Result<_>::Err(box RuntimeError(m)) or a transport error
Err(m) == [kind |-> "Err", data |-> <<>>, msg |-> m]
\* Ok(None) of call_function
OkNone == [kind |-> "None", data |-> <<>>, msg |-> ""]
\* Ok(Some(d)) of call_function
OkSome(d) == [kind |-> "Some", data |-> d, msg |-> ""]
\* the thread panics; nothing is returned to the caller
Panic(m) == [kind |-> "Panic", data |-> <<>>, msg |-> m]

ErrPreamble == "Response frame preamble does not contain 0x00FF!"
ErrNoData == "Response contains no data!"
ErrLengthChecksum == "Response length checksum did not match length!"
ErrChecksum == "Response checksum did not match expected value"
ErrMissingAck == "Did not receive expected ACK from PN532!"
ErrEcho == "Received unexpected command response!"
ErrTransportWrite == "transport write error"

PanicAssert == "assertion failed: data.len() > 1 && data.len() < 255"
PanicOverflow == "attempt to add with overflow"
PanicIndex == "index out of bounds"
PanicSliceOrder == "slice index starts after its end"
PanicSliceEnd == "range end index out of range for slice"
PanicCopyLen == "source slice length does not match destination slice length"

(* --------------------------- transport events -------------------------- *)
EvWrite(frame) == [ev |-> "write_data", bytes |-> frame, n |-> Len(frame)]
EvRead(len) == [ev |-> "read_data", bytes |-> <<>>, n |-> len]
EvWait == [ev |-> "wait_ready", bytes |-> <<>>, n |-> 0]
EvWakeUp == [ev |-> "wake_up", bytes |-> <<>>, n |-> 0]

\* the outcome of a method: what it returns and what it did to the transport
Done(r, evs) == [res |-> r, ev |-> evs]

(* ----------------------------- u8 arithmetic --------------------------- *)
\* a + b on u8 panics in a build with overflow checks when it exceeds 255
Add8Overflows(a, b, chk) == chk /\ a + b > 255
\* a + b on u8 when it does not panic
Add8(a, b) == (a + b) % 256
\* !a on u8
Not8(a) == 255 - a

RECURSIVE SumOverflows(_, _, _)
\* iter().sum::<u8>() panics: some partial sum exceeds 255 (overflow checks)
SumOverflows(s, acc, chk) ==
    IF s = <<>> THEN FALSE
    ELSE Add8Overflows(acc, Head(s), chk)
         \/ SumOverflows(Tail(s), Add8(acc, Head(s)), chk)

RECURSIVE Sum8(_, _)
\* iter().sum::<u8>() when it does not panic: left fold of u8 additions
Sum8(s, acc) ==
    IF s = <<>> THEN acc ELSE Sum8(Tail(s), Add8(acc, Head(s)))

\* response[i], 0-based
At(s, i) == s[i + 1]
\* s[lo..hi], 0-based, hi exclusive
Slice(s, lo, hi) == SubSeq(s, lo + 1, hi)

(* ------------------------------ write_frame ---------------------------- *)
\* the part of write_frame after frame[5..len-2].copy_from_slice(data)
write_frame_tail(frame, len, data, checksum0, chk, write_ok) ==
    IF SumOverflows(data, 0, chk) THEN Done(Panic(PanicOverflow), <<>>)
    ELSE IF Add8Overflows(checksum0, Sum8(data, 0), chk)
    THEN Done(Panic(PanicOverflow), <<>>)
    ELSE LET checksum == Add8(checksum0, Sum8(data, 0))
             frame5 == [i \in 1..Len(frame) |->
                          IF i = len - 2 + 1 THEN Not8(checksum)
                          ELSE IF i = len - 1 + 1 THEN POSTAMBLE
                          ELSE frame[i]]
         IN IF write_ok THEN Done(Ok(<<>>), <<EvWrite(frame5)>>)
            ELSE Done(Err(ErrTransportWrite), <<EvWrite(frame5)>>)

\* PN532::write_frame(data), on a transport whose write_data succeeds or not
write_frame(data, chk, write_ok) ==
    IF ~(Len(data) > 1 /\ Len(data) < 255)
    THEN Done(Panic(PanicAssert), <<>>)
    ELSE LET len == Len(data) % 256 IN
    IF Add8Overflows(len, 7, chk) THEN Done(Panic(PanicOverflow), <<>>)
    ELSE LET size == Add8(len, 7)
             frame0 == [i \in 1..size |-> 0]
    IN IF size < 3 THEN Done(Panic(PanicIndex), <<>>)
    ELSE LET frame1 == [i \in 1..size |->
                          IF i = 1 THEN PREAMBLE
                          ELSE IF i = 2 THEN STARTCODE1
                          ELSE IF i = 3 THEN STARTCODE2
                          ELSE frame0[i]]
             checksum0 == Sum8(SubSeq(frame1, 1, 3), 0)
    IN IF size < 5 THEN Done(Panic(PanicIndex), <<>>)
    ELSE IF Add8Overflows(Not8(len), 1, chk)
    THEN Done(Panic(PanicOverflow), <<>>)
    ELSE LET frame2 == [i \in 1..size |->
                          IF i = 4 THEN len
                          ELSE IF i = 5 THEN Add8(Not8(len), 1)
                          ELSE frame1[i]]
    \* frame[5..(len as usize - 2)].copy_from_slice(data)
    IN IF 5 > len - 2 THEN Done(Panic(PanicSliceOrder), <<>>)
    ELSE IF len - 2 > size THEN Done(Panic(PanicSliceEnd), <<>>)
    ELSE IF (len - 2) - 5 # Len(data) THEN Done(Panic(PanicCopyLen), <<>>)
    ELSE LET frame3 == [i \in 1..size |->
                          IF i > 5 /\ i <= len - 2 THEN data[i - 5]
                          ELSE frame2[i]]
         IN write_frame_tail(frame3, len, data, checksum0, chk, write_ok)

(* ------------------------------ read_frame ----------------------------- *)
RECURSIVE SwallowZeros(_, _)
\* the while loop of read_frame: the offset it leaves, or the error it returns
SwallowZeros(response, offset) ==
    IF offset >= Len(response) THEN [st |-> "panic", off |-> offset]
    ELSE IF At(response, offset) = 0
    THEN IF offset + 1 >= Len(response)
         THEN [st |-> "err", off |-> offset + 1]
         ELSE SwallowZeros(response, offset + 1)
    ELSE [st |-> "out", off |-> offset]

\* read_frame after read_data returned response
decode_frame(response, chk) ==
    LET z == SwallowZeros(response, 0) IN
    IF z.st = "panic" THEN Panic(PanicIndex)
    ELSE IF z.st = "err" THEN Err(ErrPreamble)
    ELSE IF At(response, z.off) # 255 THEN Err(ErrPreamble)
    ELSE LET offset == z.off + 1 IN
    IF offset >= Len(response) THEN Err(ErrNoData)
    ELSE LET frame_len == At(response, offset) IN
    IF offset + 1 >= Len(response) THEN Panic(PanicIndex)
    ELSE IF Add8Overflows(frame_len, At(response, offset + 1), chk)
    THEN Panic(PanicOverflow)
    ELSE IF Add8(frame_len, At(response, offset + 1)) % 256 # 0
    THEN Err(ErrLengthChecksum)
    ELSE IF offset + 2 + frame_len + 1 > Len(response)
    THEN Panic(PanicSliceEnd)
    ELSE LET body == Slice(response, offset + 2, offset + 2 + frame_len + 1) IN
    IF SumOverflows(body, 0, chk) THEN Panic(PanicOverflow)
    ELSE IF Sum8(body, 0) % 256 # 0 THEN Err(ErrChecksum)
    ELSE Ok(Slice(response, offset + 2, offset + 2 + frame_len))

\* PN532::read_frame(len) on a transport whose read_data returns response
read_frame(len, response, chk) ==
    Done(decode_frame(response, chk), <<EvRead(len + 7)>>)

(* ----------------------------- call_function --------------------------- *)
\* call_function from the second wait_ready on: the response is read,
\* decoded and checked against the command
read_response(command, response_length, t, chk, evs) ==
    LET r == read_frame(response_length + 2, t.resp, chk)
        evs2 == evs \o r.ev
    IN IF r.res.kind # "Ok" THEN Done(r.res, evs2)
       ELSE LET response == r.res.data IN
       IF Len(response) < 1 THEN Done(Panic(PanicIndex), evs2)
       ELSE IF At(response, 0) = PN532TOHOST /\ Len(response) < 2
       THEN Done(Panic(PanicIndex), evs2)
       ELSE IF At(response, 0) = PN532TOHOST /\ Add8Overflows(command, 1, chk)
       THEN Done(Panic(PanicOverflow), evs2)
       ELSE IF ~(At(response, 0) = PN532TOHOST
                 /\ At(response, 1) = Add8(command, 1))
       THEN Done(Err(ErrEcho), evs2)
       ELSE IF Len(response) < 2 THEN Done(Panic(PanicSliceEnd), evs2)
       ELSE Done(OkSome(Slice(response, 2, Len(response))), evs2)

\* a dispatcher that polls for ready before it has written the command
call_function_wait_first(command, response_length, params, t, chk) ==
    LET data == <<HOSTTOPN532, command % 256>> \o params
        w == write_frame(data, chk, t.write_ok)
    IN IF ~t.ready1 THEN Done(OkNone, <<EvWait>>)
       ELSE IF w.res.kind = "Panic" THEN Done(w.res, <<EvWait>> \o w.ev)
       ELSE IF w.res.kind = "Err"
       THEN Done(w.res, <<EvWait>> \o w.ev \o <<EvWakeUp>>)
       ELSE IF t.ack # ACK
       THEN Done(Err(ErrMissingAck), <<EvWait>> \o w.ev \o <<EvRead(Len(ACK))>>)
       ELSE IF ~t.ready2
       THEN Done(OkNone, <<EvWait>> \o w.ev \o <<EvRead(Len(ACK)), EvWait>>)
       ELSE read_response(command, response_length, t, chk,
                          <<EvWait>> \o w.ev \o <<EvRead(Len(ACK)), EvWait>>)

\* PN532::call_function(command, response_length, params, timeout) on a
\* transport t: t.write_ok is whether write_data succeeds, t.ready1 and
\* t.ready2 what the two wait_ready calls report within the timeout, t.ack
\* what read_data(6) returns and t.resp what the response read returns
call_function(command, response_length, params, t, chk) ==
    LET data == <<HOSTTOPN532, command % 256>> \o params
        w == write_frame(data, chk, t.write_ok)
    IN IF w.res.kind = "Panic" THEN w
       ELSE IF w.res.kind = "Err" THEN Done(w.res, w.ev \o <<EvWakeUp>>)
       ELSE IF ~t.ready1 THEN Done(OkNone, w.ev \o <<EvWait>>)
       ELSE IF t.ack # ACK
       THEN Done(Err(ErrMissingAck), w.ev \o <<EvWait, EvRead(Len(ACK))>>)
       ELSE IF ~t.ready2
       THEN Done(OkNone, w.ev \o <<EvWait, EvRead(Len(ACK)), EvWait>>)
       ELSE read_response(command, response_length, t, chk,
                          w.ev \o <<EvWait, EvRead(Len(ACK)), EvWait>>)

(* --------------------------- the driver's calls ------------------------ *)
PayloadBytes == {1, 255}
FrameBytes == {0, 2, 254, 255}

\* the byte strings of length n over S
SeqsOfLen(S, n) == [1..n -> S]

Payloads == UNION {SeqsOfLen(PayloadBytes, n) : n \in 0..MaxPayloadLen}

ReadLens == 0..MaxReadLen

RECURSIVE SumBytes(_)
\* the sum of the bytes of s, as an integer
SumBytes(s) == IF s = <<>> THEN 0 ELSE Head(s) + SumBytes(Tail(s))

\* the frame the wire format prescribes for payload p: preamble, start code,
\* length, length checksum, payload, payload checksum, postamble
WireFrame(p) ==
    <<PREAMBLE, STARTCODE1, STARTCODE2, Len(p), (256 - Len(p)) % 256>>
    \o p \o <<(256 - (SumBytes(p) % 256)) % 256, POSTAMBLE>>

Commands == {COMMAND_GETFIRMWAREVERSION, COMMAND_READGPIO, 255}
ParamChoices == {<<>>, <<1>>, <<1, 20, 1>>}
ResponseLengths == {0, 4}

\* what a device may answer to read_data(6): the ACK, or the ACK with one
\* byte changed
AckReplies == {ACK} \cup {[ACK EXCEPT ![i] = b] : i \in 1..Len(ACK), b \in {0, 1, 255}}

\* what a device may answer to the response read for a command
ResponseReplies(command) ==
    LET echo == (command + 1) % 256 IN
    { WireFrame(<<PN532TOHOST, echo, 50, 1>>),
      WireFrame(<<PN532TOHOST, echo>>),
      WireFrame(<<PN532TOHOST, (echo + 1) % 256, 50>>),
      WireFrame(<<HOSTTOPN532, echo, 50>>),
      WireFrame(<<PN532TOHOST>>),
      WireFrame(<<>>),
      [WireFrame(<<PN532TOHOST, echo, 50, 1>>) EXCEPT ![8] = 51],
      <<0, 0, 0, 0, 0, 0, 0, 0, 0>> }

Transports(command) ==
    [write_ok : BOOLEAN, ready1 : BOOLEAN, ack : AckReplies,
     ready2 : BOOLEAN, resp : ResponseReplies(command)]

\* the calls a client of the driver can make, with their inputs
WriteFrameCalls == [data : Payloads, write_ok : BOOLEAN]
ReadFrameCalls(n) == [len : {n}, response : SeqsOfLen(FrameBytes, n + 7)]
RoundTripCalls == [data : Payloads]
CallFunctionCalls(c) ==
    [command : {c}, response_length : ResponseLengths,
     params : ParamChoices, t : Transports(c)]

(* ------------------------------- actions ------------------------------- *)
InitCodec ==
    /\ overflow_checks \in BOOLEAN
    /\ \/ op = "write_frame" /\ arg \in WriteFrameCalls
       \/ op = "read_frame" /\ \E n \in ReadLens : arg \in ReadFrameCalls(n)
       \/ op = "round_trip" /\ arg \in RoundTripCalls
    /\ pc = "call"
    /\ result = Ok(<<>>)
    /\ events = <<>>
    /\ local = NoLocals

InitDispatch ==
    /\ overflow_checks \in BOOLEAN
    /\ op = "call_function"
    /\ \E c \in Commands : arg \in CallFunctionCalls(c)
    /\ pc = "call"
    /\ result = Ok(<<>>)
    /\ events = <<>>
    /\ local = NoLocals

\* write_frame(data) runs to its end
WriteFrame ==
    /\ pc = "call" /\ op = "write_frame"
    /\ LET r == write_frame(arg.data, overflow_checks, arg.write_ok) IN
        /\ result' = r.res
        /\ events' = r.ev
    /\ pc' = "done"
    /\ UNCHANGED <<overflow_checks, op, arg, local>>

\* read_frame(len) runs to its end
ReadFrame ==
    /\ pc = "call" /\ op = "read_frame"
    /\ LET r == read_frame(arg.len, arg.response, overflow_checks) IN
        /\ result' = r.res
        /\ events' = r.ev
    /\ pc' = "done"
    /\ UNCHANGED <<overflow_checks, op, arg, local>>

\* write_frame(data) on a transport that keeps the bytes written, then
\* read_frame(len(data)) on a transport that returns those bytes
RoundTrip ==
    /\ pc = "call" /\ op = "round_trip"
    /\ LET w == write_frame(arg.data, overflow_checks, TRUE) IN
        IF w.res.kind = "Ok"
        THEN LET r == read_frame(Len(arg.data), w.ev[1].bytes, overflow_checks)
             IN /\ result' = r.res
                /\ events' = w.ev \o r.ev
        ELSE /\ result' = w.res
             /\ events' = w.ev
    /\ pc' = "done"
    /\ UNCHANGED <<overflow_checks, op, arg, local>>

\* call_function(command, response_length, params, timeout) runs to its end
CallFunction ==
    /\ pc = "call" /\ op = "call_function"
    /\ LET r == call_function(arg.command, arg.response_length, arg.params,
                              arg.t, overflow_checks) IN
        /\ result' = r.res
        /\ events' = r.ev
    /\ pc' = "done"
    /\ UNCHANGED <<overflow_checks, op, arg, local>>

NextCodec == WriteFrame \/ ReadFrame \/ RoundTrip

NextDispatch == CallFunction

\* the frame codec alone
SpecCodec == InitCodec /\ [][NextCodec]_vars

\* the command dispatcher alone
SpecDispatch == InitDispatch /\ [][NextDispatch]_vars

(* ------------------------------ error model ---------------------------- *)
\* Ok(true) / Ok(false), and Ok((Some(b), None)) of read_gpio
OkBool(b) ==
    [kind |-> "Bool", data |-> <<>>, msg |-> IF b THEN "true" ELSE "false"]
\* Ok(()) of write_gpio's no-op and of SAM_configuration
OkUnit == [kind |-> "Unit", data |-> <<>>, msg |-> ""]

PanicUnknownCode == "Error State: Unexpected PN532 Error Code"
PanicUnwrapNone == "called Option::unwrap() on a None value"
PanicAssertEq == "assertion failed: (left == right)"

\* the status bytes PN532Error::error has a message for
KnownErrorCodes ==
    {1, 2, 3, 4, 5, 6, 7, 9, 10, 11, 13, 14, 16, 18, 19, 20, 24, 25,
     35, 37, 38, 39, 41, 42, 43, 44, 45, 46}

\* the match of PN532Error::error
ErrorMessage(code) ==
    CASE code = 1 -> "PN532 ERROR TIMEOUT"
      [] code = 2 -> "PN532 ERROR CRC"
      [] code = 3 -> "PN532 ERROR PARITY"
      [] code = 4 -> "PN532 ERROR COLLISION_BITCOUNT"
      [] code = 5 -> "PN532 ERROR MIFARE_FRAMING"
      [] code = 6 -> "PN532 ERROR MIFARE_FRAMING"
      [] code = 7 -> "PN532 ERROR NOBUFS"
      [] code = 9 -> "PN532 ERROR RFNOBUFS"
      [] code = 10 -> "PN532 ERROR ACTIVE_TOOSLOW"
      [] code = 11 -> "PN532 ERROR RFPROTO"
      [] code = 13 -> "PN532 ERROR TOOHOT"
      [] code = 14 -> "PN532 ERROR INTERNAL_NOBUFS"
      [] code = 16 -> "PN532 ERROR INVAL"
      [] code = 18 -> "PN532 ERROR DEP_INVALID_COMMAND"
      [] code = 19 -> "PN532 ERROR DEP_BADDATA"
      [] code = 20 -> "PN532 ERROR MIFARE_AUTH"
      [] code = 24 -> "PN532 ERROR NOSECURE"
      [] code = 25 -> "PN532 ERROR I2CBUSY"
      [] code = 35 -> "PN532 ERROR UIDCHECKSUM"
      [] code = 37 -> "PN532 ERROR DEPSTATE"
      [] code = 38 -> "PN532 ERROR HCIINVAL"
      [] code = 39 -> "PN532 ERROR CONTEXT"
      [] code = 41 -> "PN532 ERROR RELEASED"
      [] code = 42 -> "PN532 ERROR CARDSWAPPED"
      [] code = 43 -> "PN532 ERROR NOCARD"
      [] code = 44 -> "PN532 ERROR MISMATCH"
      [] code = 45 -> "PN532 ERROR OVERCURRENT"
      [] code = 46 -> "PN532 ERROR NONAD"
      [] OTHER -> PanicUnknownCode

\* Err(box PN532Error::error(code)): the error value, or the panic of the
\* last arm of the match
PN532Error_error(code) ==
    IF code \in KnownErrorCodes
    THEN [kind |-> "Err", data |-> <<code>>, msg |-> ErrorMessage(code)]
    ELSE Panic(PanicUnknownCode)

\* PN532::check_response(response), response being Ok(None) or Ok(Some(res))
check_response(response) ==
    IF response.kind = "Some"
    THEN IF Len(response.data) < 1 THEN Panic(PanicIndex)
         ELSE IF At(response.data, 0) # 0
         THEN PN532Error_error(At(response.data, 0))
         ELSE OkBool(TRUE)
    ELSE OkBool(FALSE)

(* ------------------------------ PN532Gpio ------------------------------ *)
OutputPins == {"P30", "P31", "P32", "P33", "P34", "P35", "P71", "P72"}
InputPins == {"I0", "I1"}
Pins == OutputPins \cup InputPins

\* PN532Gpio::idx
idx(pin) ==
    IF pin \in {"P30", "P31", "P32", "P33", "P34", "P35"} THEN 0
    ELSE IF pin \in {"P71", "P72"} THEN 1
    ELSE 2

\* PN532Gpio::offset
offset(pin) ==
    IF pin \in {"P30", "I0"} THEN 0
    ELSE IF pin \in {"P31", "P71", "I1"} THEN 1
    ELSE IF pin \in {"P32", "P72"} THEN 2
    ELSE IF pin = "P33" THEN 3
    ELSE IF pin = "P34" THEN 4
    ELSE 5

\* (x >> i) & 1 on u8
BitAt(x, i) == (x \div (2 ^ i)) % 2
\* x | (1 << i) on u8
SetBit(x, i) == IF BitAt(x, i) = 1 THEN x ELSE x + 2 ^ i
\* x & !(1 << i) on u8
ClearBit(x, i) == IF BitAt(x, i) = 1 THEN x - 2 ^ i ELSE x

\* PN532Gpio::get: response >> self.offset() & 1 == 1
get(pin, response) == BitAt(response, offset(pin)) = 1

(* --------------------------- command library --------------------------- *)
ErrNotDetected == "Failed to detect the PN532"
ErrMultipleTargets == "More than one card detected!"
ErrUidTooLong == "Found card with unexpectedly long UID!"

\* Option<_>: None is <<>>, Some(v) is <<v>>
None == <<>>
Some(v) == <<v>>

\* the ? operator: a dispatch that returned Err, or panicked, ends the caller
Failed(d) == d.res.kind \in {"Err", "Panic"}

\* get_firmware_version after its dispatch gave d
firmware_version_of(d) ==
    IF Failed(d) THEN d
    ELSE IF d.res.kind = "Some" THEN Done(Ok(d.res.data), d.ev)
    ELSE Done(Err(ErrNotDetected), d.ev)

\* PN532::get_firmware_version
get_firmware_version(t, chk) ==
    firmware_version_of(
        call_function(COMMAND_GETFIRMWAREVERSION, 4, <<>>, t, chk))

\* SAM_configuration after its dispatch gave d
unit_of(d) == IF Failed(d) THEN d ELSE Done(OkUnit, d.ev)

\* PN532::SAM_configuration
SAM_configuration(t, chk) ==
    unit_of(call_function(COMMAND_SAMCONFIGURATION, 0, <<1, 20, 1>>, t, chk))

\* read_passive_target after its dispatch gave d
passive_target_of(d) ==
    IF Failed(d) THEN d
    ELSE IF d.res.kind = "None" THEN Done(OkNone, d.ev)
    ELSE IF Len(d.res.data) < 1 THEN Done(Panic(PanicIndex), d.ev)
    ELSE IF At(d.res.data, 0) # 1 THEN Done(Err(ErrMultipleTargets), d.ev)
    ELSE IF Len(d.res.data) < 6 THEN Done(Panic(PanicIndex), d.ev)
    ELSE IF At(d.res.data, 5) > 7 THEN Done(Err(ErrUidTooLong), d.ev)
    ELSE IF 6 + At(d.res.data, 5) > Len(d.res.data)
    THEN Done(Panic(PanicSliceEnd), d.ev)
    ELSE Done(OkSome(Slice(d.res.data, 6, 6 + At(d.res.data, 5))), d.ev)

\* PN532::read_passive_target(card_baud, timeout)
read_passive_target(card_baud, t, chk) ==
    passive_target_of(
        call_function(COMMAND_INLISTPASSIVETARGET, 19,
            <<1, IF card_baud = None THEN MIFARE_ISO14443A ELSE card_baud[1]>>,
            t, chk))

\* self.check_response(self.call_function(...)?) where the dispatch gave d
checked(d) == IF Failed(d) THEN d ELSE Done(check_response(d.res), d.ev)

\* PN532::mifare_classic_authenticate_block(uid, block_number, key_number, key)
mifare_classic_authenticate_block(uid, block_number, key_number, key, t, chk) ==
    checked(call_function(COMMAND_INDATAEXCHANGE, 1,
                <<1, key_number % 256, block_number % 256>> \o key \o uid,
                t, chk))

\* mifare_classic_read_block after its dispatch gave d
block_of(d) ==
    IF Failed(d) THEN d
    ELSE IF d.res.kind = "Some"
    THEN IF Len(d.res.data) < 1 THEN Done(Panic(PanicIndex), d.ev)
         ELSE IF At(d.res.data, 0) # 0
         THEN Done(PN532Error_error(At(d.res.data, 0)), d.ev)
         ELSE Done(Ok(Slice(d.res.data, 1, Len(d.res.data))), d.ev)
    ELSE Done(Ok(<<>>), d.ev)

\* PN532::mifare_classic_read_block(block_number)
mifare_classic_read_block(block_number, t, chk) ==
    block_of(call_function(COMMAND_INDATAEXCHANGE, 17,
                 <<1, MIFARE_CMD_READ, block_number % 256>>, t, chk))

\* PN532::mifare_classic_write_block(block_number, data)
mifare_classic_write_block(block_number, data, t, chk) ==
    IF Len(data) # 16 THEN Done(Panic(PanicAssertEq), <<>>)
    ELSE checked(call_function(COMMAND_INDATAEXCHANGE, 1,
                     <<1, MIFARE_CMD_WRITE, block_number % 256>> \o data,
                     t, chk))

\* PN532::ntag2xx_write_block(block_number, data)
ntag2xx_write_block(block_number, data, t, chk) ==
    IF Len(data) # 4 THEN Done(Panic(PanicAssertEq), <<>>)
    ELSE checked(call_function(COMMAND_INDATAEXCHANGE, 1,
                     <<1, MIFARE_ULTRALIGHT_CMD_WRITE, block_number % 256>>
                     \o data, t, chk))

\* the and_then of ntag2xx_read_block on what mifare_classic_read_block gave
first_page_of(r) ==
    IF r.res.kind # "Ok" THEN r
    ELSE IF Len(r.res.data) < 4 THEN Done(Panic(PanicSliceEnd), r.ev)
    ELSE Done(Ok(Slice(r.res.data, 0, 4)), r.ev)

\* PN532::ntag2xx_read_block(block_number)
ntag2xx_read_block(block_number, t, chk) ==
    first_page_of(mifare_classic_read_block(block_number, t, chk))

\* read_gpio after its dispatch gave d
gpio_of(pin, d) ==
    IF Failed(d) THEN d
    ELSE IF d.res.kind = "None" THEN Done(Panic(PanicUnwrapNone), d.ev)
    ELSE IF pin # None
    THEN IF idx(pin[1]) >= Len(d.res.data) THEN Done(Panic(PanicIndex), d.ev)
         ELSE Done(OkBool(get(pin[1], At(d.res.data, idx(pin[1])))), d.ev)
    ELSE IF Len(d.res.data) < 3 THEN Done(Panic(PanicSliceEnd), d.ev)
    ELSE Done(Ok(Slice(d.res.data, 0, 3)), d.ev)

\* PN532::read_gpio(pin), pin being None or Some(pin)
read_gpio(pin, t, chk) ==
    gpio_of(pin, call_function(COMMAND_READGPIO, 3, <<>>, t, chk))

\* 0x80 | v & 0xFF on u8
Validated(v) == IF v >= GPIO_VALIDATIONBIT THEN v ELSE v + GPIO_VALIDATIONBIT

\* the end of write_gpio: d is what the WRITEGPIO dispatch gave, evs the
\* transport events before it
write_gpio_sent(d, evs) ==
    IF Failed(d) THEN Done(d.res, evs \o d.ev) ELSE Done(OkUnit, evs \o d.ev)

\* the single-pin branch of write_gpio after read_gpio(None) gave r: the
\* port byte is rewritten and sent with WRITEGPIO on t2
write_gpio_after_read(pin, state, r, t2, chk) ==
    IF r.res.kind # "Ok" THEN r
    ELSE IF idx(pin) >= Len(r.res.data) THEN Done(Panic(PanicIndex), r.ev)
    ELSE LET byte == At(r.res.data, idx(pin))
             value == IF state THEN Validated(SetBit(byte, offset(pin)))
                      ELSE Validated(ClearBit(byte, offset(pin)))
             params == [<<0, 0>> EXCEPT ![idx(pin) + 1] = value]
         IN write_gpio_sent(
                call_function(COMMAND_WRITEGPIO, 1, params, t2, chk), r.ev)

\* the single-pin branch of write_gpio for an output pin: READGPIO on t,
\* then WRITEGPIO on t2
write_gpio_pin(pin, state, t, t2, chk) ==
    write_gpio_after_read(pin, state, read_gpio(None, t, chk), t2, chk)

\* the direct branch of write_gpio: both port values are sent on t2
write_gpio_ports(p3, p7, t2, chk) ==
    LET params == <<IF p3 = 0 THEN 0 ELSE Validated(p3),
                    IF p7 = 0 THEN 0 ELSE Validated(p7)>>
    IN write_gpio_sent(
           call_function(COMMAND_WRITEGPIO, 1, params, t2, chk), <<>>)

\* a write_gpio that drives the input-only pins like any other pin
write_gpio_drive_inputs(pin, state, p3, p7, t, t2, chk) ==
    IF p3 # None /\ p7 # None THEN write_gpio_ports(p3[1], p7[1], t2, chk)
    ELSE write_gpio_pin(pin, state, t, t2, chk)

\* PN532::write_gpio(pin, state, p3, p7), p3 and p7 being None or Some(byte)
write_gpio(pin, state, p3, p7, t, t2, chk) ==
    IF p3 # None /\ p7 # None THEN write_gpio_ports(p3[1], p7[1], t2, chk)
    ELSE IF pin \in InputPins THEN Done(OkUnit, <<>>)
    ELSE write_gpio_pin(pin, state, t, t2, chk)

\* the closure push_slice of tg_init_as_target
push_slice(slice) ==
    IF slice # None THEN <<Len(slice[1]) % 256>> \o slice[1] ELSE <<0>>

\* Ok(Some((response[0], response[1..]))): data holds the first member of the
\* pair followed by the second
OkPair(response) == [kind |-> "SomePair", data |-> response, msg |-> ""]

\* tg_init_as_target after its dispatch gave d
target_of(d) ==
    IF Failed(d) THEN d
    ELSE IF d.res.kind = "Some"
    THEN IF Len(d.res.data) < 1 THEN Done(Panic(PanicIndex), d.ev)
         ELSE Done(OkPair(d.res.data), d.ev)
    ELSE Done(OkNone, d.ev)

\* PN532::tg_init_as_target(mode, mifare_params, felica_params, nfcid3t, gt,
\* tk, timeout)
tg_init_as_target(mode, mifare_params, felica_params, nfcid3t, gt, tk, t, chk) ==
    target_of(call_function(COMMAND_TGINITASTARGET, 64,
                  <<mode>> \o mifare_params \o felica_params \o nfcid3t
                  \o push_slice(gt) \o push_slice(tk), t, chk))

\* the status bytes and data bytes a device puts in its answers
StatusBytes == 0..255
DataBytes == {0, 7, 255}

\* what call_function can hand to check_response
DispatchResults ==
    {OkNone} \cup {OkSome(d) : d \in {<<>>, <<0, 7>>}}
    \cup {OkSome(<<c>>) : c \in StatusBytes}

\* a transport for a library call: the device acknowledges or not, is ready
\* or not, and answers command with one of datas
LibTransports(command, datas) ==
    [write_ok : BOOLEAN, ready1 : BOOLEAN, ack : {ACK, <<0, 0, 255, 255, 0, 0>>},
     ready2 : BOOLEAN,
     resp : {WireFrame(<<PN532TOHOST, (command + 1) % 256>> \o d) : d \in datas}]

\* a transport whose first four steps succeed
GoodTransports(command, datas) ==
    [write_ok : {TRUE}, ready1 : {TRUE}, ack : {ACK}, ready2 : BOOLEAN,
     resp : {WireFrame(<<PN532TOHOST, (command + 1) % 256>> \o d) : d \in datas}]

\* a transport whose write and first ready-wait succeed
AckTransports(command, datas) ==
    [write_ok : {TRUE}, ready1 : {TRUE}, ack : {ACK, <<0, 0, 255, 255, 0, 0>>},
     ready2 : BOOLEAN,
     resp : {WireFrame(<<PN532TOHOST, (command + 1) % 256>> \o d) : d \in datas}]

Block16 == <<1, 2, 3, 4, 5, 6, 7, 8, 9, 10, 11, 12, 13, 14, 15, 16>>
Page4 == <<222, 173, 190, 239>>
Uid4 == <<4, 163, 18, 90>>
Uid7 == <<4, 163, 18, 90, 1, 2, 3>>
KeyDefault == <<255, 255, 255, 255, 255, 255>>

FirmwareDatas == {<<50, 1, 6, 7>>, <<>>}
StatusDatas == {<<0>>, <<1>>, <<20>>, <<8>>, <<>>}
BlockDatas ==
    {<<0>> \o Block16, <<0>> \o Page4, <<0, 1, 2>>, <<0>>, <<20>>, <<8>>, <<>>}
TargetDatas ==
    { <<1, 1, 0, 4, 8, 4>> \o Uid4,
      <<1, 1, 0, 68, 0, 7>> \o Uid7,
      <<2, 1, 0, 4, 8, 4>> \o Uid4,
      <<0>>,
      <<1, 1, 0, 4, 8, 8>> \o Uid4 \o Uid4,
      <<1, 1, 0, 4, 8, 0>>,
      <<1, 1, 0, 4, 8, 7>> \o Uid4,
      <<1>>,
      <<>> }
GpioBytes == {21, 42}
GpioDatas == SeqsOfLen(GpioBytes, 3) \cup {<<>>, <<21>>}
OptPins == {None} \cup {Some(p) : p \in Pins}
OptBytes == {None, Some(0), Some(63)}
MifareParams == <<4, 0, 1, 2, 3, 32>>
FelicaParams == <<1, 254, 1, 2, 3, 4, 5, 6, 0, 0, 0, 0, 0, 0, 0, 0, 255, 255>>
Nfcid3t == <<1, 2, 3, 4, 5, 6, 7, 8, 9, 10>>
TargetInitDatas == {<<8, 224, 128>>, <<4>>, <<>>}

InitLibrary ==
    /\ overflow_checks \in BOOLEAN
    /\ \/ op = "PN532Error::error" /\ arg \in [code : StatusBytes]
       \/ op = "check_response" /\ arg \in [response : DispatchResults]
       \/ op = "PN532Gpio::idx" /\ arg \in [pin : Pins]
       \/ op = "PN532Gpio::offset" /\ arg \in [pin : Pins]
       \/ op = "PN532Gpio::get" /\ arg \in [pin : Pins, response : GpioBytes]
       \/ /\ op = "get_firmware_version"
          /\ arg \in [t : LibTransports(COMMAND_GETFIRMWAREVERSION, FirmwareDatas)]
       \/ /\ op = "SAM_configuration"
          /\ arg \in [t : LibTransports(COMMAND_SAMCONFIGURATION, {<<>>})]
       \/ /\ op = "read_passive_target"
          /\ arg \in [card_baud : {None, Some(0), Some(1)},
                      t : LibTransports(COMMAND_INLISTPASSIVETARGET, TargetDatas)]
       \/ /\ op = "mifare_classic_authenticate_block"
          /\ arg \in [uid : {Uid4}, block_number : {4}, key_number : {96, 97},
                      key : {KeyDefault},
                      t : LibTransports(COMMAND_INDATAEXCHANGE, StatusDatas)]
       \/ /\ op = "mifare_classic_read_block"
          /\ arg \in [block_number : {4},
                      t : LibTransports(COMMAND_INDATAEXCHANGE, BlockDatas)]
       \/ /\ op = "mifare_classic_write_block"
          /\ arg \in [block_number : {4}, data : {Block16, Page4, <<>>},
                      t : LibTransports(COMMAND_INDATAEXCHANGE, StatusDatas)]
       \/ /\ op = "ntag2xx_write_block"
          /\ arg \in [block_number : {4}, data : {Block16, Page4, <<>>},
                      t : LibTransports(COMMAND_INDATAEXCHANGE, StatusDatas)]
       \/ /\ op = "ntag2xx_read_block"
          /\ arg \in [block_number : {4},
                      t : LibTransports(COMMAND_INDATAEXCHANGE, BlockDatas)]
       \/ /\ op = "read_gpio"
          /\ arg \in [pin : OptPins, t : LibTransports(COMMAND_READGPIO, GpioDatas)]
       \/ /\ op = "write_gpio"
          /\ arg \in [pin : Pins, state : BOOLEAN, p3 : OptBytes, p7 : OptBytes,
                      t : AckTransports(COMMAND_READGPIO,
                                        SeqsOfLen(GpioBytes, 3)),
                      t2 : GoodTransports(COMMAND_WRITEGPIO, {<<>>})]
       \/ /\ op = "tg_init_as_target"
          /\ arg \in [mode : {0, 1}, gt : {None, Some(<<1, 2>>)},
                      tk : {None, Some(<<3>>)},
                      t : LibTransports(COMMAND_TGINITASTARGET, TargetInitDatas)]
    /\ pc = "call"
    /\ result = Ok(<<>>)
    /\ events = <<>>
    /\ local = NoLocals

\* a library call runs to its end with outcome d
Finish(name, d) ==
    /\ pc = "call" /\ op = name
    /\ result' = d.res
    /\ events' = d.ev
    /\ pc' = "done"
    /\ UNCHANGED <<overflow_checks, op, arg, local>>

\* PN532Error::error(code) runs to its end
ErrorOf == Finish("PN532Error::error", Done(PN532Error_error(arg.code), <<>>))

\* check_response(response) runs to its end
CheckResponse ==
    Finish("check_response", Done(check_response(arg.response), <<>>))

GpioIdx == Finish("PN532Gpio::idx", Done(Ok(<<idx(arg.pin)>>), <<>>))

GpioOffset == Finish("PN532Gpio::offset", Done(Ok(<<offset(arg.pin)>>), <<>>))

GpioGet ==
    Finish("PN532Gpio::get", Done(OkBool(get(arg.pin, arg.response)), <<>>))

GetFirmwareVersion ==
    Finish("get_firmware_version", get_firmware_version(arg.t, overflow_checks))

SAMConfiguration ==
    Finish("SAM_configuration", SAM_configuration(arg.t, overflow_checks))

ReadPassiveTarget ==
    Finish("read_passive_target",
           read_passive_target(arg.card_baud, arg.t, overflow_checks))

MifareClassicAuthenticateBlock ==
    Finish("mifare_classic_authenticate_block",
           mifare_classic_authenticate_block(arg.uid, arg.block_number,
               arg.key_number, arg.key, arg.t, overflow_checks))

MifareClassicReadBlock ==
    Finish("mifare_classic_read_block",
           mifare_classic_read_block(arg.block_number, arg.t, overflow_checks))

MifareClassicWriteBlock ==
    Finish("mifare_classic_write_block",
           mifare_classic_write_block(arg.block_number, arg.data, arg.t,
                                      overflow_checks))

Ntag2xxWriteBlock ==
    Finish("ntag2xx_write_block",
           ntag2xx_write_block(arg.block_number, arg.data, arg.t,
                               overflow_checks))

Ntag2xxReadBlock ==
    Finish("ntag2xx_read_block",
           ntag2xx_read_block(arg.block_number, arg.t, overflow_checks))

ReadGpio == Finish("read_gpio", read_gpio(arg.pin, arg.t, overflow_checks))

WriteGpio ==
    Finish("write_gpio",
           write_gpio(arg.pin, arg.state, arg.p3, arg.p7, arg.t, arg.t2,
                      overflow_checks))

TgInitAsTarget ==
    Finish("tg_init_as_target",
           tg_init_as_target(arg.mode, MifareParams, FelicaParams, Nfcid3t,
                             arg.gt, arg.tk, arg.t, overflow_checks))

NextLibrary ==
    \/ ErrorOf \/ CheckResponse \/ GpioIdx \/ GpioOffset \/ GpioGet
    \/ GetFirmwareVersion \/ SAMConfiguration \/ ReadPassiveTarget
    \/ MifareClassicAuthenticateBlock \/ MifareClassicReadBlock
    \/ MifareClassicWriteBlock \/ Ntag2xxWriteBlock \/ Ntag2xxReadBlock
    \/ ReadGpio \/ WriteGpio \/ TgInitAsTarget

(* ============================ SPI transport ============================ *)
\* src/src/pn532/spi.rs: the implementation of the transport methods of
\* trait PN532 for PN532Spi
SPI_STATREAD == 2
SPI_DATAWRITE == 1
SPI_DATAREAD == 3
SPI_READY == 1

\* the sleeps of wait_ready and of SpiDevice::transfer, in milliseconds
SleepBeforePoll == 10
SleepInTransfer == 1
SleepAfterPoll == 5

\* longest read asked of read_data, and the length of the byte stream the
\* device is prepared to shift out
MaxSpiLen == 6
\* longest timeout handed to wait_ready, in milliseconds
MaxTimeout == 40
\* how many milliseconds longer than asked the sleeps of one poll may take
MaxLate == 1

ErrTransportTransfer == "transport transfer error"
PanicDuration == "cannot convert float seconds to Duration: value is negative"

\* SpiDevice::transfer(read_buf, write_buf): write_buf is shifted out
EvTransfer(write_buf) ==
    [ev |-> "transfer", bytes |-> write_buf, n |-> Len(write_buf)]
\* SpiDevice::write(buf)
EvSpiWrite(buf) == [ev |-> "spi_write", bytes |-> buf, n |-> Len(buf)]

\* u8::reverse_bits
ReverseBits(b) ==
    LET bit(i) == (b \div (2 ^ i)) % 2
    IN bit(0) * 128 + bit(1) * 64 + bit(2) * 32 + bit(3) * 16
       + bit(4) * 8 + bit(5) * 4 + bit(6) * 2 + bit(7)

\* buf.into_iter().map(u8::reverse_bits).collect()
ReverseAll(buf) == [i \in 1..Len(buf) |-> ReverseBits(buf[i])]

\* PN532Spi::read_data(len): one transfer of len bytes.  first is the byte
\* shifted in while the read command is shifted out, device the bytes the
\* device shifts out after it has seen the command, transfer_ok whether the
\* transfer succeeds
PN532Spi_read_data(len, first, device, transfer_ok) ==
    IF len < 1 THEN Done(Panic(PanicIndex), <<>>)
    ELSE LET write_buf == [i \in 1..len |->
                             IF i = 1 THEN ReverseBits(SPI_DATAREAD) ELSE 0]
             shifted_in == <<first>> \o SubSeq(device, 1, len - 1)
             read_buf == ReverseAll(shifted_in)
         IN IF ~transfer_ok
            THEN Done(Err(ErrTransportTransfer), <<EvTransfer(write_buf)>>)
            ELSE Done(Ok(Slice(read_buf, 1, Len(read_buf))),
                      <<EvTransfer(write_buf)>>)

\* PN532Spi::write_data(frame)
PN532Spi_write_data(frame, write_ok) ==
    LET write_buf == ReverseAll(<<SPI_DATAWRITE>> \o frame)
    IN Done(IF write_ok THEN OkUnit ELSE Err(ErrTransportWrite),
            <<EvSpiWrite(write_buf)>>)

\* the status-read command wait_ready starts with
StatusRead == <<ReverseBits(SPI_STATREAD), 0>>

(* ------------------------------ SPI inputs ----------------------------- *)
SpiBytes == {0, 128, 255}
SpiLens == 0..MaxSpiLen
SpiStreams == SeqsOfLen(SpiBytes, MaxSpiLen)
SpiFrames == UNION {SeqsOfLen(PayloadBytes, n) : n \in 0..2}
\* wait_ready(timeout) with timeout in milliseconds; a negative one included
Timeouts == {-1, 0, 1, SleepBeforePoll + SleepInTransfer + SleepAfterPoll,
             MaxTimeout}
\* what the device may shift out during one status poll
StatusReplies ==
    { <<0, 0>>, <<0, ReverseBits(SPI_READY)>>, <<255, 255>>, StatusRead,
      <<ReverseBits(SPI_READY), 0>> }

(* ------------------------------ SPI actions ---------------------------- *)
InitSpi ==
    /\ overflow_checks \in BOOLEAN
    /\ \/ /\ op = "PN532Spi::read_data"
          /\ arg \in [len : SpiLens, first : {0, 255}, device : SpiStreams,
                      transfer_ok : BOOLEAN]
       \/ /\ op = "PN532Spi::write_data"
          /\ arg \in [frame : SpiFrames, write_ok : BOOLEAN]
       \/ /\ op = "PN532Spi::wait_ready"
          /\ arg \in [timeout : Timeouts]
    /\ pc = "call"
    /\ result = Ok(<<>>)
    /\ events = <<>>
    /\ local = NoLocals

SpiReadData ==
    /\ pc = "call" /\ op = "PN532Spi::read_data"
    /\ LET r == PN532Spi_read_data(arg.len, arg.first, arg.device,
                                   arg.transfer_ok) IN
        /\ result' = r.res
        /\ events' = r.ev
    /\ pc' = "done"
    /\ UNCHANGED <<overflow_checks, op, arg, local>>

SpiWriteData ==
    /\ pc = "call" /\ op = "PN532Spi::write_data"
    /\ LET r == PN532Spi_write_data(arg.frame, arg.write_ok) IN
        /\ result' = r.res
        /\ events' = r.ev
    /\ pc' = "done"
    /\ UNCHANGED <<overflow_checks, op, arg, local>>

\* wait_ready, lines 167-169: the buffers and the timestamp
WaitReadyEnter ==
    /\ pc = "call" /\ op = "PN532Spi::wait_ready"
    /\ local' = [write_buf |-> StatusRead, read_buf |-> <<0, 0>>,
                 elapsed |-> 0]
    /\ pc' = "check"
    /\ UNCHANGED <<overflow_checks, op, arg, result, events>>

\* wait_ready, line 170 and line 182: the loop condition; Duration::from_secs_f64
\* panics on a negative timeout
WaitReadyCheck ==
    /\ pc = "check" /\ op = "PN532Spi::wait_ready"
    /\ IF arg.timeout < 0
       THEN result' = Panic(PanicDuration) /\ pc' = "done"
       ELSE IF local.elapsed < arg.timeout
       THEN pc' = "poll" /\ UNCHANGED result
       ELSE result' = OkBool(FALSE) /\ pc' = "done"
    /\ UNCHANGED <<overflow_checks, op, arg, events, local>>

\* wait_ready, lines 171-179: one poll.  The device shifts out reply while
\* write_buf is shifted out; the sleeps take late milliseconds longer than
\* asked
WaitReadyPoll ==
    /\ pc = "poll" /\ op = "PN532Spi::wait_ready"
    /\ \E reply \in StatusReplies, transfer_ok \in BOOLEAN, late \in 0..MaxLate :
         LET polled == local.elapsed + SleepBeforePoll + SleepInTransfer + late
         IN /\ events' = Append(events, EvTransfer(local.write_buf))
            /\ IF ~transfer_ok
               THEN /\ result' = Err(ErrTransportTransfer)
                    /\ pc' = "done"
                    /\ local' = [local EXCEPT !.elapsed = polled]
               ELSE IF ReverseBits(At(reply, 1)) = SPI_READY
               THEN /\ result' = OkBool(TRUE)
                    /\ pc' = "done"
                    /\ local' = [local EXCEPT !.read_buf = reply,
                                              !.elapsed = polled]
               ELSE /\ UNCHANGED result
                    /\ pc' = "check"
                    /\ local' = [write_buf |-> reply, read_buf |-> reply,
                                 elapsed |-> polled + SleepAfterPoll]
    /\ UNCHANGED <<overflow_checks, op, arg>>

NextSpi ==
    \/ SpiReadData \/ SpiWriteData
    \/ WaitReadyEnter \/ WaitReadyCheck \/ WaitReadyPoll

SpecSpi == InitSpi /\ [][NextSpi]_vars

\* the thread that runs the method keeps running until the method returns
SpecSpiFair == SpecSpi /\ WF_vars(NextSpi)

Init == InitCodec \/ InitDispatch \/ InitLibrary \/ InitSpi

Next == NextCodec \/ NextDispatch \/ NextLibrary \/ NextSpi

Spec == Init /\ [][Next]_vars

\* the error model and the command library alone
SpecLibrary == InitLibrary /\ [][NextLibrary]_vars

(* ------------------------- reading the claims -------------------------- *)
RECURSIVE LeadingZeros(_)
\* how many 0x00 bytes a buffer starts with
LeadingZeros(buf) ==
    IF buf = <<>> \/ Head(buf) # 0 THEN 0 ELSE 1 + LeadingZeros(Tail(buf))

\* the buffer starts with one or more 0x00 followed by 0xFF
HasStartMarker(buf) ==
    LET k == LeadingZeros(buf) IN k >= 1 /\ k < Len(buf) /\ buf[k + 1] = 255

\* the LEN and LCS bytes that follow the start marker are in the buffer
HasLength(buf) == HasStartMarker(buf) /\ LeadingZeros(buf) + 3 <= Len(buf)
LenByte(buf) == buf[LeadingZeros(buf) + 2]
LcsByte(buf) == buf[LeadingZeros(buf) + 3]

\* payload followed by DCS, for a buffer that holds all of them
Body(buf) ==
    SubSeq(buf, LeadingZeros(buf) + 4, LeadingZeros(buf) + 4 + LenByte(buf))

\* start marker, matching LEN and LCS, and LEN >= 1 payload bytes and a DCS
\* inside the buffer
FrameShaped(buf) ==
    /\ HasLength(buf)
    /\ (LenByte(buf) + LcsByte(buf)) % 256 = 0
    /\ LenByte(buf) >= 1
    /\ LeadingZeros(buf) + 4 + LenByte(buf) <= Len(buf)

\* a well-formed frame in which one payload byte was changed: a frame-shaped
\* buffer whose payload and DCS do not sum to 0 mod 256 (one payload byte can
\* always be changed back so that they do)
OnePayloadByteChanged(buf) ==
    FrameShaped(buf) /\ SumBytes(Body(buf)) % 256 # 0

\* f is the frame of payload p: 0x00 0x00 0xFF LEN LCS p DCS 0x00
IsFrameOf(f, p) ==
    /\ Len(f) = Len(p) + 7
    /\ SubSeq(f, 1, 3) = <<0, 0, 255>>
    /\ f[4] = Len(p)
    /\ (f[4] + f[5]) % 256 = 0
    /\ SubSeq(f, 6, 5 + Len(p)) = p
    /\ (SumBytes(p) + f[Len(p) + 6]) % 256 = 0
    /\ f[Len(p) + 7] = 0

ValidPayload(p) == Len(p) > 1 /\ Len(p) < 255

EventKinds(evs) == [i \in 1..Len(evs) |-> evs[i].ev]
IsPrefix(a, b) == Len(a) <= Len(b) /\ a = SubSeq(b, 1, Len(a))
CountKind(evs, k) == Cardinality({i \in 1..Len(evs) : evs[i].ev = k})

\* the writes, ready-waits and reads among the events (wake_up is the
\* device-specific idle-break signal, not a step of the exchange)
IsExchangeStep(e) == e.ev # "wake_up"
TransportEvents(evs) == SelectSeq(evs, IsExchangeStep)

\* write the command frame, wait, read the ACK, wait, read the response
Protocol ==
    <<"write_data", "wait_ready", "read_data", "wait_ready", "read_data">>

\* the payload a response buffer declares, when it is the frame of one
DeclaredPayload(resp) == SubSeq(resp, 6, 5 + resp[4])
WellFormedResponse(resp) ==
    /\ Len(resp) >= 7
    /\ Len(resp) = resp[4] + 7
    /\ resp = WireFrame(DeclaredPayload(resp))

\* the operations of the command library that dispatch a command
DispatchOps ==
    {"get_firmware_version", "SAM_configuration", "read_passive_target",
     "mifare_classic_authenticate_block", "mifare_classic_read_block",
     "mifare_classic_write_block", "ntag2xx_write_block", "ntag2xx_read_block",
     "read_gpio", "write_gpio", "tg_init_as_target"}

\* the caller respected the documented argument lengths
ValidArgs ==
    /\ op = "mifare_classic_write_block" => Len(arg.data) = 16
    /\ op = "ntag2xx_write_block" => Len(arg.data) = 4

\* on transport t the dispatch gives up at one of its two ready-waits
TimesOut(t) == t.write_ok /\ (~t.ready1 \/ (t.ack = ACK /\ ~t.ready2))

\* on transport t the dispatch gets through to the response read
Exchanged(t) == t.write_ok /\ t.ready1 /\ t.ack = ACK /\ t.ready2

\* the data bytes the device answers on t: its payload after the direction
\* byte and the command echo
DeviceData(t) == SubSeq(DeclaredPayload(t.resp), 3, Len(DeclaredPayload(t.resp)))

\* the command frames written to the transport, in order
IsWrite(e) == e.ev = "write_data"
FramesWritten == [i \in 1..Len(SelectSeq(events, IsWrite)) |->
                    SelectSeq(events, IsWrite)[i].bytes]

\* exactly one frame was written, that of command with params
WroteOnly(command, params) ==
    FramesWritten = <<WireFrame(<<HOSTTOPN532, command>> \o params)>>

\* the mode of a write_gpio call
SinglePinMode == arg.p3 = None /\ arg.p7 = None
OneDispatchTimesOut ==
    IF op = "write_gpio"
    THEN IF arg.p3 # None /\ arg.p7 # None THEN TimesOut(arg.t2)
         ELSE arg.pin \in OutputPins /\ (TimesOut(arg.t) \/ TimesOut(arg.t2))
    ELSE TimesOut(arg.t)

\* the documented position of each pin: its port byte and its bit
PinTable ==
    [pin \in Pins |->
       CASE pin = "P30" -> [port |-> 0, bit |-> 0]
         [] pin = "P31" -> [port |-> 0, bit |-> 1]
         [] pin = "P32" -> [port |-> 0, bit |-> 2]
         [] pin = "P33" -> [port |-> 0, bit |-> 3]
         [] pin = "P34" -> [port |-> 0, bit |-> 4]
         [] pin = "P35" -> [port |-> 0, bit |-> 5]
         [] pin = "P71" -> [port |-> 1, bit |-> 1]
         [] pin = "P72" -> [port |-> 1, bit |-> 2]
         [] pin = "I0" -> [port |-> 2, bit |-> 0]
         [] pin = "I1" -> [port |-> 2, bit |-> 1]]

\* v is s with the apply bit set, bit b equal to state and the other bits kept
OnlyBitChanged(v, s, b, state) ==
    \A k \in 0..7 :
        BitAt(v, k) = IF k = 7 THEN 1
                      ELSE IF k = b THEN (IF state THEN 1 ELSE 0)
                      ELSE BitAt(s, k)

\* the byte a directly supplied port value is sent as
PortByte(p) == IF p = None \/ p = Some(0) THEN 0 ELSE Validated(p[1])

\* an optional byte block as the wire carries it: its byte count followed
\* by its bytes, or the single byte 0x00 when it is absent
LengthPrefixed(block) ==
    IF block = None THEN <<0>> ELSE <<Len(block[1])>> \o block[1]

Returned == pc = "done"

(* -------------------------------- claims ------------------------------- *)
\* C1: for every payload p with 1 < len(p) < 255, write_frame hands the
\* transport exactly one frame of len(p)+7 bytes laid out as 0x00 0x00 0xFF
\* LEN LCS p DCS 0x00 with LEN = len(p), (LEN + LCS) mod 256 = 0 and
\* (sum(p) + DCS) mod 256 = 0.
C1_FrameLayout ==
    (Returned /\ op = "write_frame" /\ ValidPayload(arg.data))
    => /\ Len(events) = 1
       /\ events[1].ev = "write_data"
       /\ IsFrameOf(events[1].bytes, arg.data)

\* C2: frame round-trip: for every payload p with 1 < len(p) < 255,
\* read_frame(len(p)) on the bytes write_frame produced for p returns p.
C2_RoundTrip ==
    (Returned /\ op = "round_trip" /\ ValidPayload(arg.data))
    => result = Ok(arg.data)

\* C3: checksum rejection: on a well-formed frame in which a single payload
\* byte was changed (preamble, start code, LEN and LCS untouched) read_frame
\* returns the payload-checksum-mismatch error, never a payload.
C3_ChecksumRejection ==
    (Returned /\ op = "read_frame" /\ OnePayloadByteChanged(arg.response))
    => result = Err(ErrChecksum)

\* C4: for every pair of bytes (LEN, LCS) following the start marker,
\* read_frame returns the length-checksum-mismatch error exactly when
\* (LEN + LCS) mod 256 is not 0, also for pairs whose sum exceeds 255.
C4_LengthChecksum ==
    (Returned /\ op = "read_frame" /\ HasLength(arg.response))
    => (result = Err(ErrLengthChecksum)
        <=> (LenByte(arg.response) + LcsByte(arg.response)) % 256 # 0)

\* C5: read_frame skips the leading 0x00 bytes to find the 0x00 0xFF start
\* marker and returns the malformed-preamble error when no 0xFF is found
\* before the buffer ends (an all-zero buffer included); a buffer gets past
\* the preamble stage only if a 0x00 0xFF marker was found.
C5_Preamble ==
    (Returned /\ op = "read_frame")
    => LET buf == arg.response
           k == LeadingZeros(buf)
       IN /\ (k = Len(buf) \/ buf[k + 1] # 255) => result = Err(ErrPreamble)
          /\ result # Err(ErrPreamble) => HasStartMarker(buf)

C7_TimeoutIsNone ==
    (Returned /\ op = "call_function" /\ arg.t.write_ok
     /\ (~arg.t.ready1 \/ (arg.t.ack = ACK /\ ~arg.t.ready2)))
    => /\ result = OkNone
       /\ events # <<>>
       /\ events[Len(events)].ev = "wait_ready"

\* C8: ACK gate: when the first ready-wait succeeds and the bytes returned in
\* place of the ACK differ from 00 00 FF 00 FF 00 in a single byte,
\* call_function returns the missing-ACK error; when they equal it,
\* call_function does not report missing-ACK.
C8_AckGate ==
    (Returned /\ op = "call_function" /\ arg.t.write_ok /\ arg.t.ready1)
    => (result = Err(ErrMissingAck) <=> arg.t.ack # ACK)

\* C9: echo check: when the response frame is well-formed but its first two
\* payload bytes are not (0xD5, opcode+1), call_function returns the
\* unexpected-command-echo error; when they are, it returns Some of the
\* payload with exactly those two bytes removed.
C9_EchoCheck ==
    (Returned /\ op = "call_function" /\ arg.t.write_ok /\ arg.t.ready1
     /\ arg.t.ack = ACK /\ arg.t.ready2 /\ WellFormedResponse(arg.t.resp)
     /\ Len(DeclaredPayload(arg.t.resp)) >= 2 /\ arg.command < 255)
    => LET p == DeclaredPayload(arg.t.resp) IN
       IF p[1] = PN532TOHOST /\ p[2] = arg.command + 1
       THEN result = OkSome(SubSeq(p, 3, Len(p)))
       ELSE result = Err(ErrEcho)

\* C10: when the transport write of the command frame fails, call_function
\* invokes wake_up exactly once, then returns the original write error, and
\* performs no ready-wait, ACK read or response read.
C10_WriteFailure ==
    (Returned /\ op = "call_function" /\ ~arg.t.write_ok)
    => /\ result = Err(ErrTransportWrite)
       /\ EventKinds(events) = <<"write_data", "wake_up">>

\* C12: for every non-zero status byte, known or not, the error model
\* produces an error value that is returned to the caller: a status byte
\* outside the known set gives an error too, never success and never a panic.
C12_ErrorValue ==
    /\ (Returned /\ op = "PN532Error::error" /\ arg.code # 0)
       => result.kind = "Err" /\ result.data = <<arg.code>>
    /\ (Returned /\ op = "check_response" /\ arg.response.kind = "Some"
        /\ Len(arg.response.data) >= 1 /\ arg.response.data[1] # 0)
       => result.kind = "Err" /\ result.data = <<arg.response.data[1]>>

\* C11: whichever command-library operation is called with arguments of the
\* documented lengths, when a ready-wait of its dispatch times out the
\* operation returns a value or an error; it does not panic
C11_TimeoutNeverPanics ==
    (Returned /\ op \in DispatchOps /\ ValidArgs /\ OneDispatchTimesOut)
    => result.kind # "Panic"

\* C13: mifare_classic_authenticate_block sends INDATAEXCHANGE with
\* parameters 0x01, key type, block number, key, uid; when the device answers
\* with a status byte, 0x00 gives Ok(true), any other status gives the error
\* of that status, and 0x14 gives the Mifare authentication error
C13_Authenticate ==
    (Returned /\ op = "mifare_classic_authenticate_block"
     /\ Exchanged(arg.t) /\ Len(DeviceData(arg.t)) >= 1)
    => LET status == DeviceData(arg.t)[1] IN
       /\ WroteOnly(COMMAND_INDATAEXCHANGE,
                    <<1, arg.key_number, arg.block_number>> \o arg.key \o arg.uid)
       /\ status = 0 => result = OkBool(TRUE)
       /\ status # 0 => result.kind = "Err" /\ result.data = <<status>>
       /\ status = 20 => result.msg = ErrorMessage(20)

\* C14: mifare_classic_read_block sends INDATAEXCHANGE with parameters 0x01,
\* 0x30, block number; when the device answers 0x00 followed by bytes B the
\* result is exactly B, and when it answers a non-zero status the result is
\* the error of that status
C14_ReadBlock ==
    (Returned /\ op = "mifare_classic_read_block"
     /\ Exchanged(arg.t) /\ Len(DeviceData(arg.t)) >= 1)
    => LET d == DeviceData(arg.t) IN
       /\ WroteOnly(COMMAND_INDATAEXCHANGE,
                    <<1, MIFARE_CMD_READ, arg.block_number>>)
       /\ d[1] = 0 => result = Ok(Tail(d))
       /\ d[1] # 0 => result.kind = "Err" /\ result.data = <<d[1]>>

\* C15: get_firmware_version sends GETFIRMWAREVERSION without parameters; a
\* ready-wait timeout gives the device-not-detected error, and a completed
\* exchange gives the data bytes of the response unchanged
C15_FirmwareVersion ==
    (Returned /\ op = "get_firmware_version" /\ arg.t.write_ok)
    => /\ WroteOnly(COMMAND_GETFIRMWAREVERSION, <<>>)
       /\ TimesOut(arg.t) => result = Err(ErrNotDetected)
       /\ Exchanged(arg.t) => result = Ok(DeviceData(arg.t))

\* C16: read_passive_target returns None on a dispatch timeout; on a
\* response whose byte 0 is not 1 it fails with the multiple-targets error;
\* otherwise, on a UID length byte above 7 it fails with the UID-too-long
\* error; otherwise it returns the UID-length bytes after the length byte;
\* a returned UID is never longer than 7 bytes
C16_PassiveTarget ==
    (Returned /\ op = "read_passive_target")
    => LET d == DeviceData(arg.t) IN
       /\ TimesOut(arg.t) => result = OkNone
       /\ (Exchanged(arg.t) /\ Len(d) >= 1 /\ d[1] # 1)
          => result = Err(ErrMultipleTargets)
       /\ (Exchanged(arg.t) /\ Len(d) >= 6 /\ d[1] = 1 /\ d[6] > 7)
          => result = Err(ErrUidTooLong)
       /\ (Exchanged(arg.t) /\ Len(d) >= 6 /\ d[1] = 1 /\ d[6] <= 7
           /\ Len(d) >= 6 + d[6])
          => result = OkSome(SubSeq(d, 7, 6 + d[6]))
       /\ result.kind = "Some" => Len(result.data) <= 7

\* C17: each pin sits at its documented port and bit; read_gpio of a named
\* pin on a 3-byte status vector S returns that bit of that port byte of S,
\* and read_gpio of all pins returns S itself
C17_ReadGpio ==
    /\ (Returned /\ op = "PN532Gpio::idx")
       => result = Ok(<<PinTable[arg.pin].port>>)
    /\ (Returned /\ op = "PN532Gpio::offset")
       => result = Ok(<<PinTable[arg.pin].bit>>)
    /\ (Returned /\ op = "read_gpio" /\ Exchanged(arg.t)
        /\ Len(DeviceData(arg.t)) = 3)
       => LET S == DeviceData(arg.t) IN
          IF arg.pin = None THEN result = Ok(S)
          ELSE LET at == PinTable[arg.pin[1]] IN
               result = OkBool(BitAt(S[at.port + 1], at.bit) = 1)

\* C18: write_gpio of one output pin, after reading the GPIO state S, sends
\* a WRITEGPIO frame in which the byte of the port of the pin is S[port] with
\* the apply bit set and only the target bit set or cleared, and the byte of
\* the other port is 0x00
C18_SinglePinWrite ==
    (Returned /\ op = "write_gpio" /\ SinglePinMode /\ arg.pin \in OutputPins
     /\ Exchanged(arg.t))
    => LET S == DeviceData(arg.t)
           at == PinTable[arg.pin]
       IN \E v \in 0..255 :
             /\ OnlyBitChanged(v, S[at.port + 1], at.bit, arg.state)
             /\ Len(FramesWritten) = 2
             /\ FramesWritten[1] = WireFrame(<<HOSTTOPN532, COMMAND_READGPIO>>)
             /\ FramesWritten[2] =
                  WireFrame(<<HOSTTOPN532, COMMAND_WRITEGPIO>>
                            \o [<<0, 0>> EXCEPT ![at.port + 1] = v])

\* C19: write_gpio of one input-only pin, I0 or I1, with either state,
\* returns success and causes no transport event
C19_InputPinNoOp ==
    (Returned /\ op = "write_gpio" /\ SinglePinMode /\ arg.pin \in InputPins)
    => result = OkUnit /\ events = <<>>

\* C19 witness: write_gpio returned for an input-only pin in single-pin mode
C19_InputPinWritten ==
    /\ Returned /\ op = "write_gpio" /\ SinglePinMode
    /\ arg.pin = "I1" /\ arg.state
    /\ result = OkUnit

\* C20: whenever p3 or p7 is supplied, write_gpio sends exactly one frame, a
\* WRITEGPIO (so no READGPIO) whose two parameter bytes are 0x80 | value for
\* a non-zero supplied value and 0x00 otherwise
C20_DirectWrite ==
    (Returned /\ op = "write_gpio" /\ (arg.p3 # None \/ arg.p7 # None))
    => WroteOnly(COMMAND_WRITEGPIO, <<PortByte(arg.p3), PortByte(arg.p7)>>)

\* C21: tg_init_as_target sends TGINITASTARGET with mode, the 6 mifare
\* bytes, the 18 felica bytes, the 10 nfcid3t bytes, then the general bytes
\* and the historical bytes, each as its length followed by its bytes, or as
\* 0x00 when absent; a completed exchange returns the first response byte
\* and the remaining ones, a dispatch timeout returns None
C21_TargetInit ==
    (Returned /\ op = "tg_init_as_target" /\ arg.t.write_ok)
    => LET d == DeviceData(arg.t) IN
       /\ WroteOnly(COMMAND_TGINITASTARGET,
                    <<arg.mode>> \o MifareParams \o FelicaParams \o Nfcid3t
                    \o LengthPrefixed(arg.gt) \o LengthPrefixed(arg.tk))
       /\ TimesOut(arg.t) => result = OkNone
       /\ (Exchanged(arg.t) /\ Len(d) >= 1)
          => /\ result.kind = "SomePair"
             /\ Head(result.data) = d[1]
             /\ Tail(result.data) = Tail(d)

\* what mifare_classic_read_block returns when its dispatch timed out
ReadBlockTimeout == block_of(Done(OkNone, <<>>)).res

\* C22: on a ready-wait timeout authenticate, classic write and ultralight
\* write return false; mifare_classic_read_block returns its timeout value
\* on a timeout and never returns that value when the device answered with
\* the success status
C22_TimeoutDistinct ==
    Returned
    => /\ (op \in {"mifare_classic_authenticate_block",
                   "mifare_classic_write_block", "ntag2xx_write_block"}
           /\ ValidArgs /\ TimesOut(arg.t))
          => result = OkBool(FALSE)
       /\ (op = "mifare_classic_read_block" /\ TimesOut(arg.t))
          => result = ReadBlockTimeout
       /\ (op = "mifare_classic_read_block" /\ Exchanged(arg.t)
           /\ Len(DeviceData(arg.t)) >= 1 /\ DeviceData(arg.t)[1] = 0)
          => result # ReadBlockTimeout

\* buf starts with the well-formed frame of a payload of n bytes
StartsWithFrame(buf, n) ==
    /\ n + 7 <= Len(buf)
    /\ IsPrefix(WireFrame(SubSeq(buf, 6, 5 + n)), buf)

\* C23: whatever bytes the transport returns as the response, read_frame
\* returns a payload or an error and never indexes outside the buffer that
\* was read; a well-formed frame whose payload is shorter than the requested
\* maximum is decoded to that payload
C23_ResponseSafety ==
    (Returned /\ op = "read_frame")
    => /\ result.kind \in {"Ok", "Err"}
       /\ \A n \in 0..MaxReadLen :
             (n < arg.len /\ StartsWithFrame(arg.response, n))
             => result = Ok(SubSeq(arg.response, 6, 5 + n))

\* C24: read_data(len) of the SPI transport returns the len bytes the device
\* shifts out after the read command, so read_data(6) returns the ACK when
\* the device answers with it
C24_SpiReadLength ==
    (Returned /\ op = "PN532Spi::read_data" /\ arg.transfer_ok)
    => /\ result.kind = "Ok"
       /\ Len(result.data) = arg.len
       /\ result.data = ReverseAll(SubSeq(arg.device, 1, arg.len))
       /\ (arg.len = Len(ACK) /\ ReverseAll(SubSeq(arg.device, 1, Len(ACK))) = ACK)
          => result = Ok(ACK)

\* the status the last poll of wait_ready read
StatusSeen == ReverseBits(At(local.read_buf, 1))

\* what wait_ready with a timeout that is not negative does while it runs
\* and when it returns
WaitReadyContract ==
    (op = "PN532Spi::wait_ready" /\ arg.timeout >= 0)
    => /\ \A i \in 1..Len(events) : events[i] = EvTransfer(StatusRead)
       /\ pc = "poll" => local.elapsed < arg.timeout
       /\ (pc = "check" /\ events # <<>>) => StatusSeen # SPI_READY
       /\ Returned => result.kind \in {"Bool", "Err"}
       /\ (Returned /\ result = OkBool(TRUE)) => StatusSeen = SPI_READY
       /\ (Returned /\ result = OkBool(FALSE))
          => local.elapsed >= arg.timeout /\ StatusSeen # SPI_READY
       /\ (Returned /\ arg.timeout = 0)
          => result = OkBool(FALSE) /\ events = <<>>

\* C25: wait_ready always terminates; it checks the deadline before each
\* poll, returns true as soon as a poll reads the ready status, returns false
\* once the deadline has passed (at once and without a poll for timeout 0),
\* and every poll sends the status-read command
C25_WaitReady ==
    /\ []WaitReadyContract
    /\ (op = "PN532Spi::wait_ready" /\ arg.timeout >= 0) ~> Returned

\* C26: write_gpio of one output pin writes the READGPIO frame first and at
\* most one more frame; a second frame is a WRITEGPIO frame written after
\* the whole READGPIO exchange, response read included; when the READGPIO
\* dispatch does not get its ACK no WRITEGPIO frame is written
C26_ReadBeforeWrite ==
    (Returned /\ op = "write_gpio" /\ SinglePinMode /\ arg.pin \in OutputPins)
    => LET kinds == EventKinds(TransportEvents(events)) IN
       /\ Len(FramesWritten) \in {1, 2}
       /\ FramesWritten[1] = WireFrame(<<HOSTTOPN532, COMMAND_READGPIO>>)
       /\ Len(FramesWritten) = 2
          => /\ Exchanged(arg.t)
             /\ IsPrefix(Protocol \o <<"write_data">>, kinds)
             /\ At(FramesWritten[2], 6) = COMMAND_WRITEGPIO
       /\ arg.t.ack # ACK
          => /\ Len(FramesWritten) = 1
             /\ result = Err(ErrMissingAck)
====
